---- MODULE Spec2Model ----
(***************************************************************************)
(* SkillbotAI: the marksheet text-extraction pipeline (ocr_service.py),    *)
(* the rule-based field recommender (recommender.py) and the upload        *)
(* handler of the Streamlit app (streamlit_app.py).                        *)
(*                                                                         *)
(* Text is modelled as a sequence of one-character strings, so that        *)
(* substring search, case folding, stripping and the numeric pattern are   *)
(* computed character by character the way the Python code computes them.  *)
(* Numbers that Python holds as floats are exact rationals [n, d] here;    *)
(* the one place where the float matters (round() on an exact decimal tie) *)
(* is a nondeterministic choice between the two neighbours.                *)
(***************************************************************************)
EXTENDS Integers, Sequences, FiniteSets, TLC

VARIABLES
    text_list,     \* ocr_service.py: the token buffer list(ocr_df['text'])
    parsed,        \* the record of one parse_marks_from_ocr_df run
    marks_df,      \* the MarksTable (a DataFrame, or None)
    scores_dict,   \* the map returned by extract_subject_scores
    personality,   \* the personality mapping handed to the recommender
    result,        \* the value returned by the last call
    pc,            \* position of the pipeline / the function under check
    reader,        \* ocr_service.py: the module global _reader
    session,       \* streamlit_app.py: st.session_state
    ui             \* streamlit_app.py: what the last handler displayed

vars == <<text_list, parsed, marks_df, scores_dict, personality, result, pc,
          reader, session, ui>>

----------------------------------------------------------------------------
(* Characters and strings                                                  *)

LowerLetters == <<"a","b","c","d","e","f","g","h","i","j","k","l","m",
                  "n","o","p","q","r","s","t","u","v","w","x","y","z">>
UpperLetters == <<"A","B","C","D","E","F","G","H","I","J","K","L","M",
                  "N","O","P","Q","R","S","T","U","V","W","X","Y","Z">>
Digits == <<"0","1","2","3","4","5","6","7","8","9">>

Range(f) == {f[x] : x \in DOMAIN f}

LetterSet == Range(LowerLetters) \cup Range(UpperLetters)
LowerSet  == Range(LowerLetters)
DigitSet  == Range(Digits)

IsAlpha(c) == c \in LetterSet
IsDigit(c) == c \in DigitSet
IsSpace(c) == c = " "

\* the upper-case letter of each lower-case letter
UpperOf ==
    [c \in LowerSet |->
        UpperLetters[CHOOSE i \in DOMAIN LowerLetters : LowerLetters[i] = c]]

\* str.upper() of one character
UpperChar(c) == IF c \in LowerSet THEN UpperOf[c] ELSE c

\* str.upper()
Upper(s) == [i \in DOMAIN s |-> UpperChar(s[i])]

\* value of one decimal digit
DigitValues == [c \in DigitSet |-> (CHOOSE i \in DOMAIN Digits : Digits[i] = c) - 1]

DigitVal(c) == DigitValues[c]

\* sub occurs in s at position i
OccursAt(s, sub, i) ==
    /\ i + Len(sub) - 1 <= Len(s)
    /\ \A k \in 1..Len(sub) : s[i + k - 1] = sub[k]

\* Python's  sub in s
Contains(s, sub) == \E i \in 1..(Len(s) + 1) : OccursAt(s, sub, i)

\* pandas Series.str.contains(token, case=False): the aliases hold no regex
\* metacharacter, so the pattern is a case-insensitive substring test
ContainsNoCase(s, token) == Contains(Upper(s), Upper(token))

\* str.strip(): leading and trailing whitespace removed
Strip(s) ==
    LET keep == {i \in DOMAIN s : ~IsSpace(s[i])}
    IN  IF keep = {} THEN <<>>
        ELSE LET lo == CHOOSE i \in keep : \A k \in keep : i <= k
                 hi == CHOOSE i \in keep : \A k \in keep : k <= i
             IN  SubSeq(s, lo, hi)

\* str.replace(",", "")
RemoveCommas(s) == SelectSeq(s, LAMBDA c : c # ",")

\* re.search(r'[A-Za-z]{2,}', t): two consecutive ASCII letters somewhere
HasTwoLetters(t) ==
    \E i \in 1..(Len(t) - 1) : IsAlpha(t[i]) /\ IsAlpha(t[i + 1])

----------------------------------------------------------------------------
(* ocr_service.py: extract_number_robust                                   *)

\* length of the run of digits of s that starts at position i
RECURSIVE DigitRun(_, _)
DigitRun(s, i) ==
    IF i <= Len(s) /\ IsDigit(s[i]) THEN 1 + DigitRun(s, i + 1) ELSE 0

\* int() of a string of digits
RECURSIVE DigitsValue(_)
DigitsValue(ds) ==
    IF ds = <<>> THEN 0
    ELSE 10 * DigitsValue(SubSeq(ds, 1, Len(ds) - 1)) + DigitVal(ds[Len(ds)])

\* the "no number" result (Python None), and a found number: ip is its
\* integer part, fr the digits after the point, isFloat whether the match
\* holds a point (the code then returns float(v), else int(v))
NoNumber == [found |-> FALSE, isFloat |-> FALSE, ip |-> 0, fr |-> <<>>]

extract_number_robust(str) ==
    LET s     == RemoveCommas(str)
        start == {i \in DOMAIN s : IsDigit(s[i])}
    IN  IF start = {} THEN NoNumber
        ELSE LET b   == CHOOSE i \in start : \A k \in start : i <= k
                 n1  == DigitRun(s, b)
                 dot == b + n1 <= Len(s) /\ s[b + n1] = "."
                 n2  == IF dot THEN DigitRun(s, b + n1 + 1) ELSE 0
             IN  [found   |-> TRUE,
                  isFloat |-> dot,
                  ip      |-> DigitsValue(SubSeq(s, b, b + n1 - 1)),
                  fr      |-> IF dot THEN SubSeq(s, b + n1 + 1, b + n1 + n2)
                              ELSE <<>>]

\* int(n) of a number the extractor returned: a float is truncated
IntOf(n) == n.ip

----------------------------------------------------------------------------
(* Table cells.  A cell of the Maximum / Obtained column is a Python int,  *)
(* None, or the float NaN that pandas writes for a missing number.         *)

IntCell(v) == [t |-> "int", v |-> v]
NoneCell   == [t |-> "None", v |-> 0]
NaNCell    == [t |-> "NaN", v |-> 0]

\* pd.DataFrame(...) of a column list: a column of ints with some None is
\* stored as float64 and its None become NaN; a column of only None keeps
\* them (object dtype)
PandasColumn(col) ==
    IF \E i \in DOMAIN col : col[i].t = "int"
    THEN [i \in DOMAIN col |-> IF col[i].t = "None" THEN NaNCell ELSE col[i]]
    ELSE col

\* a DataFrame with the columns Subject | Maximum | Obtained, or None
NoneFrame == [absent |-> TRUE, rows |-> <<>>]
Frame(rows) == [absent |-> FALSE, rows |-> rows]

----------------------------------------------------------------------------
(* ocr_service.py: parse_marks_from_ocr_df                                 *)

SCAN_WINDOW == 6
NUMS_WANTED == 2
MIN_TOKEN_LEN == 2

\* the token at the cursor is skipped as noise (line 56)
IsNoise(t) == t = <<>> \/ Len(t) < MIN_TOKEN_LEN

\* a variant of the heuristic without the header exclusion
MutCandidateNoMarkCheck(t) == HasTwoLetters(t)

\* the plausible-subject heuristic (line 60)
IsCandidateSubject(t) ==
    HasTwoLetters(t) /\ ~Contains(Upper(t), <<"M","A","R","K">>)

\* a variant of the inner loop without the limit on the tokens scanned
RECURSIVE MutScanWindowUnbounded(_, _, _, _, _)
MutScanWindowUnbounded(tl, j, scanned, nums, idx) ==
    IF j <= Len(tl) /\ Len(nums) < NUMS_WANTED
    THEN LET n == extract_number_robust(tl[j])
         IN  IF n.found
             THEN MutScanWindowUnbounded(tl, j + 1, scanned + 1, Append(nums, n), Append(idx, j))
             ELSE MutScanWindowUnbounded(tl, j + 1, scanned + 1, nums, idx)
    ELSE [nums |-> nums, idx |-> idx, j |-> j]

\* the inner while loop (lines 64-69): nums are the numbers found, at the
\* positions idx of the buffer; j is where the scan stopped
RECURSIVE ScanWindow(_, _, _, _, _)
ScanWindow(tl, j, scanned, nums, idx) ==
    IF j <= Len(tl) /\ scanned < SCAN_WINDOW /\ Len(nums) < NUMS_WANTED
    THEN LET n == extract_number_robust(tl[j])
         IN  IF n.found
             THEN ScanWindow(tl, j + 1, scanned + 1, Append(nums, n), Append(idx, j))
             ELSE ScanWindow(tl, j + 1, scanned + 1, nums, idx)
    ELSE [nums |-> nums, idx |-> idx, j |-> j]

\* the outer while loop (lines 54-76), cursor i (1-based here); acc is the
\* sequence of rows emitted so far.  A row carries, beside its three columns,
\* the buffer positions its subject (si) and its two numbers (mi, oi) came from
RECURSIVE PrimaryPass(_, _, _)
PrimaryPass(tl, i, acc) ==
    IF i > Len(tl) THEN acc
    ELSE LET t == Strip(tl[i])
         IN  IF IsNoise(t) THEN PrimaryPass(tl, i + 1, acc)
             ELSE IF IsCandidateSubject(t)
             THEN LET w == ScanWindow(tl, i + 1, 0, <<>>, <<>>)
                  IN  IF Len(w.nums) >= NUMS_WANTED
                      THEN PrimaryPass(tl, w.j,
                               Append(acc, [Subject  |-> t,
                                            Maximum  |-> IntCell(IntOf(w.nums[1])),
                                            Obtained |-> IntCell(IntOf(w.nums[2])),
                                            si |-> i, mi |-> w.idx[1], oi |-> w.idx[2],
                                            pass |-> "primary"]))
                      ELSE PrimaryPass(tl, i + 1, acc)
             ELSE PrimaryPass(tl, i + 1, acc)

\* re.split(r'[:\-]', t): the pieces between the delimiters
IsDelimiter(c) == c = ":" \/ c = "-"

RECURSIVE SplitParts(_, _, _)
SplitParts(t, i, cur) ==
    IF i > Len(t) THEN <<cur>>
    ELSE IF IsDelimiter(t[i]) THEN <<cur>> \o SplitParts(t, i + 1, <<>>)
    ELSE SplitParts(t, i + 1, Append(cur, t[i]))

\* the fallback loop (lines 79-88) from token i on
RECURSIVE FallbackPass(_, _, _)
FallbackPass(tl, i, acc) ==
    IF i > Len(tl) THEN acc
    ELSE LET parts == SplitParts(tl[i], 1, <<>>)
             all   == [k \in DOMAIN parts |-> extract_number_robust(parts[k])]
             nums  == SelectSeq(all, LAMBDA n : n.found)
         IN  IF Len(parts) >= 2 /\ Len(nums) >= 1
             THEN FallbackPass(tl, i + 1,
                      Append(acc, [Subject  |-> Strip(parts[1]),
                                   Maximum  |-> IntCell(IntOf(nums[1])),
                                   Obtained |-> IF Len(nums) > 1
                                                THEN IntCell(IntOf(nums[2]))
                                                ELSE NoneCell,
                                   si |-> i, mi |-> i, oi |-> i,
                                   pass |-> "fallback"]))
             ELSE FallbackPass(tl, i + 1, acc)

\* a variant that runs the fallback loop after every primary pass
MutParseRowsBoth(tl) == PrimaryPass(tl, 1, <<>>) \o FallbackPass(tl, 1, <<>>)

\* the rows of one run: the fallback is tried when the primary pass left
\* subjects empty (line 77)
ParseRows(tl) ==
    LET primary == PrimaryPass(tl, 1, <<>>)
    IN  IF primary = <<>> THEN FallbackPass(tl, 1, <<>>) ELSE primary

\* pd.DataFrame({"Subject":..., "Maximum":..., "Obtained":...}) (line 89)
BuildFrame(rows) ==
    LET mx == PandasColumn([i \in DOMAIN rows |-> rows[i].Maximum])
        ob == PandasColumn([i \in DOMAIN rows |-> rows[i].Obtained])
    IN  Frame([i \in DOMAIN rows |->
                 [Subject |-> rows[i].Subject, Maximum |-> mx[i], Obtained |-> ob[i]]])

parse_marks_from_ocr_df(tl) == BuildFrame(ParseRows(tl))

----------------------------------------------------------------------------
(* Exact rationals [n, d], d > 0, in lowest terms: the values Python holds *)
(* as floats                                                               *)

Abs(x) == IF x < 0 THEN -x ELSE x

RECURSIVE GCD(_, _)
GCD(a, b) == IF b = 0 THEN a ELSE GCD(b, a % b)

Rat(n, d) ==
    LET g == GCD(Abs(n), d)
    IN  IF n = 0 THEN [n |-> 0, d |-> 1] ELSE [n |-> n \div g, d |-> d \div g]

RZero == Rat(0, 1)
ROne  == Rat(1, 1)

RAdd(a, b) ==
    LET g == GCD(a.d, b.d)
    IN  Rat(a.n * (b.d \div g) + b.n * (a.d \div g), (a.d \div g) * b.d)

RMul(a, b) ==
    LET g1 == IF a.n = 0 THEN 1 ELSE GCD(Abs(a.n), b.d)
        g2 == IF b.n = 0 THEN 1 ELSE GCD(Abs(b.n), a.d)
    IN  Rat((a.n \div g1) * (b.n \div g2), (a.d \div g2) * (b.d \div g1))

\* a / b for b > 0
RDiv(a, b) == RMul(a, [n |-> b.d, d |-> b.n])

RLess(a, b) == a.n * b.d < b.n * a.d
RLeq(a, b)  == a.n * b.d <= b.n * a.d

\* a float: a rational, or NaN
Num(q) == [t |-> "num", q |-> q]
NaN    == [t |-> "NaN", q |-> RZero]

\* float + float and float * float: NaN is absorbing
FAdd(x, y) == IF x.t = "NaN" \/ y.t = "NaN" THEN NaN ELSE Num(RAdd(x.q, y.q))
FMul(x, y) == IF x.t = "NaN" \/ y.t = "NaN" THEN NaN ELSE Num(RMul(x.q, y.q))

\* max(0, x): max returns its first argument unless a later one is greater,
\* and NaN > 0 is False
FloorAtZero(x) == IF x.t = "num" /\ RLess(RZero, x.q) THEN x.q ELSE RZero

----------------------------------------------------------------------------
(* recommender.py: the static tables                                       *)

SUBJECT_KEYWORDS ==
    [math       |-> << <<"M","A","T","H">>,
                       <<"M","A","T","H","E","M","A","T","I","C","S">> >>,
     physics    |-> << <<"P","H","Y","S","I","C","S">>, <<"P","H","Y","S">> >>,
     chemistry  |-> << <<"C","H","E","M","I","S","T","R","Y">>,
                       <<"C","H","E","M">> >>,
     biology    |-> << <<"B","I","O","L","O","G","Y">>, <<"B","I","O">> >>,
     computer   |-> << <<"C","O","M","P","U","T","E","R">>,
                       <<"C","O","M","P","U","T","E","R"," ","S","C","I","E","N","C","E">>,
                       <<"I","T">>, <<"C","S">> >>,
     english    |-> << <<"E","N","G","L","I","S","H">>, <<"E","N","G">> >>,
     urdu       |-> << <<"U","R","D","U">> >>,
     islamiat   |-> << <<"I","S","L","A","M","I","Y","A","T">> >>,
     pakstudies |-> << <<"P","A","K","I","S","T","A","N"," ","S","T","U","D","I","E","S">>,
                       <<"P","A","K"," ","S","T","U","D","I","E","S">>,
                       <<"P","A","K"," ","S","T","U","D">> >>]

Fields == <<"STEM", "ARTS", "COMMERCE">>

SUBFIELDS ==
    [STEM     |-> <<"Engineering", "Computer Science", "Pharmacy", "Medicine">>,
     ARTS     |-> <<"Design", "Fine Arts", "Journalism", "Languages">>,
     COMMERCE |-> <<"Finance", "Accounting", "Business", "Economics">>]

----------------------------------------------------------------------------
(* recommender.py: extract_subject_scores                                  *)

\* a value of the returned map: None ("unknown"), or a float
NoneScore == [t |-> "None", q |-> RZero]

\* a variant of the mask in which every row matches every alias
MutMaskEveryRow(df, token) == DOMAIN df.rows

\* the rows whose Subject contains the token (the mask of line 39)
Mask(df, token) ==
    {i \in DOMAIN df.rows : ContainsNoCase(df.rows[i].Subject, token)}

\* lines 37-43: the first alias with a match decides; its first matching row
\* is the one found.  0 stands for found = None
FoundRow(df, subj_key) ==
    LET tokens == SUBJECT_KEYWORDS[subj_key]
        hits   == {a \in DOMAIN tokens : Mask(df, tokens[a]) # {}}
    IN  IF hits = {} THEN 0
        ELSE LET a == CHOOSE x \in hits : \A y \in hits : x <= y
                 m == Mask(df, tokens[a])
             IN  CHOOSE i \in m : \A k \in m : i <= k

\* float(cell) if cell is not None else None (lines 48-49)
FloatOrNone(cell) ==
    IF cell.t = "None" THEN NoneScore
    ELSE IF cell.t = "NaN" THEN NaN
    ELSE Num(Rat(cell.v, 1))

\* lines 45-55 for the row found
RowScore(row) ==
    LET obt_n == FloatOrNone(row.Obtained)
        mx_n  == FloatOrNone(row.Maximum)
        mx_ok == mx_n.t = "num" /\ mx_n.q.n > 0
    IN  IF obt_n.t # "None" /\ mx_ok
        THEN (IF obt_n.t = "NaN" THEN NaN ELSE Num(RDiv(obt_n.q, mx_n.q)))
        ELSE IF obt_n.t # "None" THEN obt_n
        ELSE NoneScore

\* a variant that returns the dict under construction for an empty table
\* and sets a key only when a row was found
MutExtractFoundOnly(df) ==
    IF df.absent \/ df.rows = <<>>
    THEN [k \in {} |-> NoneScore]
    ELSE [k \in {x \in DOMAIN SUBJECT_KEYWORDS : FoundRow(df, x) # 0} |->
            RowScore(df.rows[FoundRow(df, k)])]

extract_subject_scores(df) ==
    IF df.absent \/ df.rows = <<>>
    THEN [k \in DOMAIN SUBJECT_KEYWORDS |-> NoneScore]
    ELSE [k \in DOMAIN SUBJECT_KEYWORDS |->
            LET found == FoundRow(df, k)
            IN  IF found # 0 THEN RowScore(df.rows[found]) ELSE NoneScore]

----------------------------------------------------------------------------
(* recommender.py: normalize_personality                                   *)

\* a raw personality value: None, a number (or a string float() accepts),
\* NaN, or a string float() rejects
PNone    == [t |-> "None", q |-> RZero]
PText    == [t |-> "text", q |-> RZero]
PNaN     == [t |-> "NaN",  q |-> RZero]
PNum(q)  == [t |-> "num",  q |-> q]

\* lines 66-78 for one value.  NaN fails both comparisons and min(1.0, nan)
\* returns its first argument
NormalizeValue(v) ==
    IF v.t = "None" THEN RZero
    ELSE IF v.t = "text" THEN RZero
    ELSE IF v.t = "NaN" THEN ROne
    ELSE IF RLeq(v.q, Rat(5, 1)) THEN RDiv(v.q, Rat(5, 1))
    ELSE IF RLeq(v.q, Rat(100, 1)) THEN RDiv(v.q, Rat(100, 1))
    ELSE (IF RLess(RDiv(v.q, Rat(100, 1)), ROne) THEN RDiv(v.q, Rat(100, 1)) ELSE ROne)

\* personality is a function from its keys to raw values; None is the empty
\* mapping (personality or {})
normalize_personality(p) == [k \in DOMAIN p |-> NormalizeValue(p[k])]

----------------------------------------------------------------------------
(* recommender.py: calculate_best_fit                                      *)

\* the keys line 90 reads from scores_dict
SubjectIds == {"math", "physics", "chemistry", "biology", "computer",
               "english", "urdu", "islamiat", "pakstudies"}

\* scores_dict.get(k) or 0.0 (line 90): a missing key, None and 0 give 0.0;
\* NaN is truthy and stays
SubjectValue(sd, k) ==
    IF k \notin DOMAIN sd THEN Num(RZero)
    ELSE IF sd[k].t = "None" THEN Num(RZero)
    ELSE sd[k]

\* p.get(key, 0) of the normalized personality
TraitValue(p, key) == IF key \in DOMAIN p THEN p[key] ELSE RZero

\* weight * s[k], the weight in hundredths
Weighted(sd, k, w) == FMul(SubjectValue(sd, k), Num(Rat(w, 100)))

\* base + slope * trait, both in tenths
Multiplier(base, slope, trait) ==
    Num(RAdd(Rat(base, 10), RMul(Rat(slope, 10), trait)))

\* line 93
stem_score(sd, p) ==
    FMul(FAdd(FAdd(Weighted(sd, "math", 35), Weighted(sd, "physics", 25)),
              FAdd(Weighted(sd, "chemistry", 15), Weighted(sd, "computer", 25))),
         Multiplier(7, 3, TraitValue(p, "openness")))

\* line 94
arts_score(sd, p) ==
    FMul(FAdd(FAdd(Weighted(sd, "english", 50), Weighted(sd, "urdu", 30)),
              Weighted(sd, "biology", 20)),
         Multiplier(6, 4, TraitValue(p, "openness")))

\* line 95
commerce_score(sd, p) ==
    FMul(FAdd(FAdd(Weighted(sd, "math", 50), Weighted(sd, "english", 30)),
              Weighted(sd, "computer", 20)),
         Multiplier(6, 4, TraitValue(p, "conscientiousness")))

\* the three raw composites of lines 93-95, personality normalized first
\* (line 91)
RawScores(sd, pers) ==
    LET p == normalize_personality(pers)
    IN  [STEM     |-> stem_score(sd, p),
         ARTS     |-> arts_score(sd, p),
         COMMERCE |-> commerce_score(sd, p)]

\* line 97: each composite floored at 0
FlooredScores(sd, pers) ==
    LET raw == RawScores(sd, pers)
    IN  [f \in Range(Fields) |-> FloorAtZero(raw[f])]

\* line 98: sum(scores.values()) or 1.0
Total(scores) ==
    LET sum == RAdd(RAdd(scores["STEM"], scores["ARTS"]), scores["COMMERCE"])
    IN  IF sum.n = 0 THEN ROne ELSE sum

\* a variant that truncates to 3 decimals instead of rounding
MutRound3Truncate(x) ==
    LET whole == x.n \div x.d
        r0    == x.n % x.d
        d1    == (10 * r0) \div x.d
        r1    == (10 * r0) % x.d
        d2    == (10 * r1) \div x.d
        r2    == (10 * r1) % x.d
        d3    == (10 * r2) \div x.d
    IN  {1000 * whole + 100 * d1 + 10 * d2 + d3}

\* round(x, 3) of x >= 0, in thousandths, by long division.  On an exact
\* decimal tie the float that holds x lies on either side of it, so both
\* neighbours are possible
Round3(x) ==
    LET whole == x.n \div x.d
        r0    == x.n % x.d
        d1    == (10 * r0) \div x.d
        r1    == (10 * r0) % x.d
        d2    == (10 * r1) \div x.d
        r2    == (10 * r1) % x.d
        d3    == (10 * r2) \div x.d
        r3    == (10 * r2) % x.d
        down  == 1000 * whole + 100 * d1 + 10 * d2 + d3
    IN  IF 2 * r3 < x.d THEN {down}
        ELSE IF 2 * r3 > x.d THEN {down + 1}
        ELSE {down, down + 1}

\* line 100: the rounded shares a run can return, each in thousandths
NormalizedScores(scores) ==
    LET total == Total(scores)
    IN  {[STEM |-> a, ARTS |-> b, COMMERCE |-> c] :
           a \in Round3(RDiv(scores["STEM"], total)),
           b \in Round3(RDiv(scores["ARTS"], total)),
           c \in Round3(RDiv(scores["COMMERCE"], total))}

\* a variant that keeps the last maximal key instead of the first
MutBestFieldLast(ns) ==
    LET best == {i \in DOMAIN Fields : \A k \in DOMAIN Fields : ns[Fields[k]] <= ns[Fields[i]]}
    IN  Fields[CHOOSE i \in best : \A k \in best : k <= i]

\* line 101: max(normalized_scores, key=normalized_scores.get) returns the
\* first key, in the dict's order STEM, ARTS, COMMERCE, that no later key
\* exceeds
BestField(ns) ==
    LET best == {i \in DOMAIN Fields : \A k \in DOMAIN Fields : ns[Fields[k]] <= ns[Fields[i]]}
    IN  Fields[CHOOSE i \in best : \A k \in best : i <= k]

\* lines 102-106
Recommendation(ns) ==
    [best_field     |-> BestField(ns),
     best_subfields |-> SUBFIELDS[BestField(ns)],
     scores         |-> ns]

\* the records calculate_best_fit can return
calculate_best_fit(sd, pers) ==
    {Recommendation(ns) : ns \in NormalizedScores(FlooredScores(sd, pers))}

\* recommender.py: recommend_field_for_student (personality_record or {})
recommend_field_for_student(df, pers) ==
    calculate_best_fit(extract_subject_scores(df), pers)

----------------------------------------------------------------------------
(* Inputs: recognized text fragments, subject labels, tables, score maps   *)
(* and personality mappings the operations are applied to                  *)

T_MARKS_OBTAINED == <<"M", "A", "R", "K", "S", " ", "O", "B", "T", "A", "I", "N", "E", "D">>
T_Chemistry == <<"C", "h", "e", "m", "i", "s", "t", "r", "y">>
T_Biology == <<"B", "i", "o", "l", "o", "g", "y">>
T_Math == <<"M", "a", "t", "h">>
T_Remarks == <<"R", "e", "m", "a", "r", "k", "s">>
T_100 == <<"1", "0", "0">>
T_85 == <<"8", "5">>
T_50 == <<"5", "0">>
T_40 == <<"4", "0">>
T_90 == <<"9", "0">>
T_5 == <<"5">>
T_0 == <<"0">>
T_x == <<"x">>
T_Urdu_40 == <<"U", "r", "d", "u", ":", " ", "4", "0">>
T_Eng_90_80 == <<"E", "n", "g", "-", "9", "0", "-", "8", "0">>
T_3_7 == <<"3", ".", "7">>
S_MATHEMATICS == <<"M", "A", "T", "H", "E", "M", "A", "T", "I", "C", "S">>
S_PHYSICS == <<"P", "H", "Y", "S", "I", "C", "S">>
S_ENGLISH == <<"E", "N", "G", "L", "I", "S", "H">>
S_Computer_Science == <<"C", "o", "m", "p", "u", "t", "e", "r", " ", "S", "c", "i", "e", "n", "c", "e">>
S_Urdu == <<"U", "r", "d", "u">>
S_default == <<"_", "d", "e", "f", "a", "u", "l", "t", "_">>

\* the fragments token buffers are built from
TokenPool == {T_MARKS_OBTAINED, T_Chemistry, T_Math, T_Remarks, T_100, T_90,
              T_50, T_5, T_0, T_x, T_Urdu_40, T_Eng_90_80, T_3_7}

MaxTokens == 3

RECURSIVE SeqsUpTo(_, _)
SeqsUpTo(S, n) ==
    IF n = 0 THEN {<<>>}
    ELSE LET shorter == SeqsUpTo(S, n - 1)
         IN  shorter \cup {Append(q, x) : q \in {r \in shorter : Len(r) = n - 1}, x \in S}

\* the header scenario, and a buffer whose second number lies beyond the
\* scan window of its subject
HeaderBuffer == <<T_MARKS_OBTAINED, T_Chemistry, T_100, T_85, T_Biology, T_50, T_40>>
LongBuffer   == <<T_Math, T_x, T_x, T_Remarks, T_x, T_x, T_100, T_5>>

TokenBuffers == SeqsUpTo(TokenPool, MaxTokens) \cup {HeaderBuffer, LongBuffer}

Row(subject, mx, ob) == [Subject |-> subject, Maximum |-> mx, Obtained |-> ob]

ScenarioTable ==
    Frame(<<Row(S_MATHEMATICS, IntCell(100), IntCell(90)),
            Row(S_PHYSICS, IntCell(100), IntCell(70)),
            Row(S_ENGLISH, IntCell(100), IntCell(95))>>)

SampleRows ==
    {Row(S_MATHEMATICS, IntCell(100), IntCell(90)),
     Row(S_PHYSICS, IntCell(100), IntCell(70)),
     Row(S_ENGLISH, IntCell(100), IntCell(95)),
     Row(T_Chemistry, IntCell(100), IntCell(85)),
     Row(S_Computer_Science, IntCell(0), IntCell(40)),
     Row(S_Urdu, IntCell(40), NaNCell),
     Row(T_Biology, IntCell(50), NoneCell),
     Row(S_default, IntCell(100), IntCell(50))}

MaxRows == 2

SampleTables ==
    {Frame(rows) : rows \in SeqsUpTo(SampleRows, MaxRows)}
        \cup {NoneFrame, ScenarioTable}

\* subject scores: the grid k/ScoreDen of [0,1], a ratio above 1, and NaN
ScoreDen == 2

ScoreValues ==
    {Num(Rat(k, ScoreDen)) : k \in 0..ScoreDen} \cup {Num(Rat(9, 5)), NaN}

AllUnknown == [k \in SubjectIds |-> NoneScore]

MaxKnown == 2

\* the maps in which at most MaxKnown subjects are known
ScoreMaps ==
    {[k \in SubjectIds |-> IF k \in DOMAIN known THEN known[k] ELSE NoneScore] :
        known \in UNION {[ks -> ScoreValues] :
                            ks \in {x \in SUBSET SubjectIds : Cardinality(x) <= MaxKnown}}}

ScenarioScores ==
    [k \in SubjectIds |->
        IF k = "math" THEN Num(Rat(9, 10))
        ELSE IF k = "physics" THEN Num(Rat(7, 10))
        ELSE IF k = "english" THEN Num(Rat(19, 20))
        ELSE NoneScore]

\* raw personality values: both scales, out-of-range numbers, None, NaN and
\* text float() rejects
RawValues ==
    {PNone, PText, PNaN} \cup
    {PNum(Rat(k, 1)) : k \in {-3, 0, 3, 5, 6, 50, 100, 101, 150}} \cup
    {PNum(Rat(4, 5)), PNum(Rat(1, 2)), PNum(Rat(11, 2))}

TraitKeys == {"openness", "conscientiousness"}

Mappings(keys, values) == UNION {[ks -> values] : ks \in SUBSET keys}

RawPersonalities == Mappings(TraitKeys, RawValues)

ScenarioPersonality ==
    [k \in TraitKeys |-> IF k = "openness" THEN PNum(Rat(4, 5)) ELSE PNum(Rat(1, 2))]

\* the personalities the scoring is run on
FitValues == {PNum(Rat(1, 2)), PNum(Rat(3, 1)), PNum(Rat(-20, 1))}

FitPersonalities == Mappings(TraitKeys, FitValues)

----------------------------------------------------------------------------
(* ocr_service.py: get_reader, preprocess_image_bytes, run_ocr_on_image    *)

\* the module global _reader: engine tells whether a Reader exists, gpu the
\* flag it was constructed with, built how many Readers were constructed
NoReader == [engine |-> FALSE, gpu |-> FALSE, built |-> 0]

\* an exception: the stage that failed and the class raised
NoExc == [fault |-> "none", type |-> "none"]
Exc(fault, type) == [fault |-> fault, type |-> type]

\* a variant that constructs a new Reader when the gpu flag differs
MutGetReaderPerGpu(rdr, gpu, init_ok) ==
    IF rdr.engine /\ rdr.gpu = gpu THEN [reader |-> rdr, exc |-> NoExc]
    ELSE IF init_ok
    THEN [reader |-> [engine |-> TRUE, gpu |-> gpu, built |-> rdr.built + 1],
          exc |-> NoExc]
    ELSE [reader |-> rdr, exc |-> Exc("engine", "RuntimeError")]

\* get_reader(gpu): constructs the Reader only when none exists; init_ok
\* tells whether easyocr.Reader(...) returns or raises
get_reader(rdr, gpu, init_ok) ==
    IF rdr.engine THEN [reader |-> rdr, exc |-> NoExc]
    ELSE IF init_ok
    THEN [reader |-> [engine |-> TRUE, gpu |-> gpu, built |-> rdr.built + 1],
          exc |-> NoExc]
    ELSE [reader |-> rdr, exc |-> Exc("engine", "RuntimeError")]

\* preprocess_image_bytes: cv2.imdecode returns None for bytes it cannot
\* decode, and cv2.cvtColor(None, ...) raises cv2.error
preprocess_image_bytes(file) ==
    IF file.decodable THEN NoExc ELSE Exc("decode", "cv2.error")

\* the DataFrame of run_ocr_on_image: pd.DataFrame(rows) of no rows has no
\* column 'text'
NoOcr == [has_text |-> FALSE, text |-> <<>>]
OcrFrame(tokens) == [has_text |-> tokens # <<>>, text |-> tokens]

\* what reader.readtext does: returns the fragments, or raises one of these
RecogOutcomes == {"ok", "RuntimeError", "cv2.error"}

\* one run of run_ocr_on_image(image_bytes): the reader first, then the
\* preprocessing, then reader.readtext (recog is "ok" or the class it raises)
RunOcr(file, rdr, init_ok, recog) ==
    LET g == get_reader(rdr, FALSE, init_ok)
        d == preprocess_image_bytes(file)
    IN  IF g.exc # NoExc THEN [reader |-> g.reader, exc |-> g.exc, ocr_df |-> NoOcr]
        ELSE IF d # NoExc THEN [reader |-> g.reader, exc |-> d, ocr_df |-> NoOcr]
        ELSE IF recog # "ok"
        THEN [reader |-> g.reader, exc |-> Exc("recognition", recog), ocr_df |-> NoOcr]
        ELSE [reader |-> g.reader, exc |-> NoExc, ocr_df |-> OcrFrame(file.tokens)]

\* the outcomes run_ocr_on_image(image_bytes) can have
run_ocr_on_image(file, rdr) ==
    {RunOcr(file, rdr, init_ok, recog) : init_ok \in BOOLEAN, recog \in RecogOutcomes}

\* ocr_df['text'] (line 49) raises KeyError when the column is missing
ParseOcrFrame(ocr_df) ==
    IF ocr_df.has_text
    THEN [exc |-> NoExc, df |-> parse_marks_from_ocr_df(ocr_df.text)]
    ELSE [exc |-> Exc("parsing", "KeyError"), df |-> NoneFrame]

----------------------------------------------------------------------------
(* streamlit_app.py: the questionnaire aggregates                          *)

\* questions.csv and tci_questions.csv: question id -> category / trait
RiasecQuestions == [riasec_1 |-> "A"]
TciQuestions    == [tci_0 |-> "openness"]

RiasecCategories == {"R", "I", "A", "S", "E", "C"}

SLIDER_DEFAULT == 2
LIKERT_MAX == 5

RECURSIVE SumOf(_, _)
SumOf(f, keys) ==
    IF keys = {} THEN 0
    ELSE LET k == CHOOSE x \in keys : TRUE IN f[k] + SumOf(f, keys \ {k})

\* mean of the answers of the questions of one group, on 0..1
GroupMean(answers, questions, group) ==
    LET qs == {q \in DOMAIN questions : questions[q] = group /\ q \in DOMAIN answers}
    IN  Rat(SumOf(answers, qs), Cardinality(qs) * LIKERT_MAX)

HasAnswers(answers, questions, group) ==
    \E q \in DOMAIN questions : questions[q] = group /\ q \in DOMAIN answers

\* aggregate_riasec: every category R..C present, 0 when it has no answer
aggregate_riasec(answers) ==
    [c \in RiasecCategories \cup {RiasecQuestions[q] : q \in DOMAIN RiasecQuestions} |->
        IF HasAnswers(answers, RiasecQuestions, c)
        THEN GroupMean(answers, RiasecQuestions, c) ELSE RZero]

\* aggregate_tci: only the traits that have answers
aggregate_tci(answers) ==
    [t \in {TciQuestions[q] : q \in (DOMAIN TciQuestions \cap DOMAIN answers)} |->
        GroupMean(answers, TciQuestions, t)]

\* {**riasec_agg, **tci_agg} as the recommender's personality mapping
PersonalityRecord(riasec_agg, tci_agg) ==
    [k \in DOMAIN riasec_agg \cup DOMAIN tci_agg |->
        IF k \in DOMAIN tci_agg THEN PNum(tci_agg[k]) ELSE PNum(riasec_agg[k])]

\* pd.DataFrame([{"Subject":"_default_","Maximum":100,"Obtained":50}])
PlaceholderTable == Frame(<<Row(S_default, IntCell(100), IntCell(50))>>)

----------------------------------------------------------------------------
(* streamlit_app.py: the session and the upload block                      *)

\* an aggregate stored in the session, or the key not set
Unset == [set |-> FALSE, val |-> <<>>]
Stored(v) == [set |-> TRUE, val |-> v]

\* st.session_state after the state initialization (lines 166-176), the
\* sliders at their default
InitialSession ==
    [riasec_answers    |-> [q \in DOMAIN RiasecQuestions |-> SLIDER_DEFAULT],
     tci_answers       |-> [q \in DOMAIN TciQuestions |-> SLIDER_DEFAULT],
     latest_riasec_agg |-> Unset,
     latest_tci_agg    |-> Unset,
     want_personal     |-> "None",
     user              |-> "None",
     marks_df          |-> NoneFrame]

\* the file in the uploader
NoFile == [present |-> FALSE, decodable |-> FALSE, tokens |-> <<>>]
ImageFile(tokens) == [present |-> TRUE, decodable |-> TRUE, tokens |-> tokens]
BadFile == [present |-> TRUE, decodable |-> FALSE, tokens |-> <<>>]

\* what st.error shows: the label of the handler and the exception in it
NoError == [fault |-> "none", label |-> "none", type |-> "none"]

\* the except clause of the upload block (line 356): one label for every
\* exception of the try
OcrError(exc) == [fault |-> exc.fault, label |-> "OCR / parsing failed", type |-> exc.type]

\* the upload block (lines 322-357) after run_ocr_on_image returned o and
\* parse_marks_from_ocr_df returned p: the parsed CSV is saved to storage
\* (csv_ok: the upload returns) and the parsed table stored in the session
AfterOcr(o, p, sess, csv_ok) ==
    IF o.exc # NoExc
    THEN [reader |-> o.reader, session |-> sess, error |-> OcrError(o.exc)]
    ELSE IF p.exc # NoExc
    THEN [reader |-> o.reader, session |-> sess, error |-> OcrError(p.exc)]
    ELSE IF ~csv_ok
    THEN [reader |-> o.reader, session |-> sess,
          error |-> OcrError(Exc("storage", "StorageException"))]
    ELSE [reader |-> o.reader, session |-> [sess EXCEPT !.marks_df = p.df],
          error |-> NoError]

\* the outcomes of the upload block for the file in the uploader
UploadBlock(rdr, sess, file) ==
    UNION {{AfterOcr(o, p, sess, csv_ok) :
                p \in {ParseOcrFrame(o.ocr_df)}, csv_ok \in BOOLEAN} :
           o \in run_ocr_on_image(file, rdr)}

\* the personalized section of one script run (lines 262-357): rendered for
\* want_personal = "Yes"; the upload block runs when a user is logged in and
\* a file is in the uploader
PersonalSection(rdr, sess, file) ==
    IF sess.want_personal = "Yes" /\ sess.user # "None" /\ file.present
    THEN UploadBlock(rdr, sess, file)
    ELSE {[reader |-> rdr, session |-> sess, error |-> NoError]}

\* marks_df = st.session_state.get("marks_df") or pd.DataFrame([...]) (line
\* 374): None gives the placeholder; the truth value of a DataFrame raises
\* ValueError
GenerateTable(sess) ==
    IF sess.marks_df.absent
    THEN [exc |-> NoExc, df |-> PlaceholderTable, from |-> "placeholder"]
    ELSE [exc |-> Exc("generate", "ValueError"), df |-> sess.marks_df, from |-> "none"]

\* latest aggregate or, when unset or empty, the aggregate of the current
\* answers (lines 363-364)
RiasecAggOf(sess) ==
    IF sess.latest_riasec_agg.set /\ DOMAIN sess.latest_riasec_agg.val # {}
    THEN sess.latest_riasec_agg.val ELSE aggregate_riasec(sess.riasec_answers)

TciAggOf(sess) ==
    IF sess.latest_tci_agg.set /\ DOMAIN sess.latest_tci_agg.val # {}
    THEN sess.latest_tci_agg.val ELSE aggregate_tci(sess.tci_answers)

----------------------------------------------------------------------------
(* The operations                                                          *)

NoResult == <<>>

NoRec == [best_field |-> "none", best_subfields |-> <<>>,
          scores |-> [STEM |-> 0, ARTS |-> 0, COMMERCE |-> 0]]

\* what one script run displayed: the st.error of the upload block, the
\* recommendation with the handler that computed it (rec_by) and the table
\* it was computed from (rec_from), and an exception no handler caught.
\* uploaded is the file in the uploader
InitialUi ==
    [uploaded |-> NoFile, error |-> NoError, rec |-> NoRec,
     rec_by |-> "none", rec_from |-> "none", crashed |-> "none"]

\* the app at rest: no engine, a fresh session, nothing shown
AppIdle ==
    /\ reader = NoReader
    /\ session = InitialSession
    /\ ui = InitialUi

appVars == <<reader, session, ui>>

\* parse_marks_from_ocr_df(ocr_df) on the buffer text_list
ParseMarks ==
    /\ pc = "parse"
    /\ parsed' = ParseRows(text_list)
    /\ marks_df' = parse_marks_from_ocr_df(text_list)
    /\ pc' = "extract"
    /\ UNCHANGED <<text_list, scores_dict, personality, result, appVars>>

\* extract_subject_scores(marks_df)
ExtractScores ==
    /\ pc = "extract"
    /\ scores_dict' = extract_subject_scores(marks_df)
    /\ pc' = "extracted"
    /\ UNCHANGED <<text_list, parsed, marks_df, personality, result, appVars>>

\* normalize_personality(personality)
NormalizePersonality ==
    /\ pc = "normalize"
    /\ result' = normalize_personality(personality)
    /\ pc' = "normalized"
    /\ UNCHANGED <<text_list, parsed, marks_df, scores_dict, personality, appVars>>

\* calculate_best_fit(scores_dict, personality)
CalculateBestFit ==
    /\ pc = "fit"
    /\ \E rec \in calculate_best_fit(scores_dict, personality) : result' = rec
    /\ pc' = "fitted"
    /\ UNCHANGED <<text_list, parsed, marks_df, scores_dict, personality, appVars>>

\* the marksheet pipeline: a token buffer is parsed, then scored
InitPipeline ==
    /\ text_list \in TokenBuffers
    /\ parsed = <<>>
    /\ marks_df = NoneFrame
    /\ scores_dict = AllUnknown
    /\ personality = <<>>
    /\ result = NoResult
    /\ pc = "parse"
    /\ AppIdle

NextPipeline == ParseMarks \/ ExtractScores

SpecPipeline == InitPipeline /\ [][NextPipeline]_vars

\* extract_subject_scores on a table
InitExtract ==
    /\ text_list = <<>>
    /\ parsed = <<>>
    /\ marks_df \in SampleTables
    /\ scores_dict = AllUnknown
    /\ personality = <<>>
    /\ result = NoResult
    /\ pc = "extract"
    /\ AppIdle

NextExtract == ExtractScores

SpecExtract == InitExtract /\ [][NextExtract]_vars

\* normalize_personality on a mapping
InitNormalize ==
    /\ text_list = <<>>
    /\ parsed = <<>>
    /\ marks_df = NoneFrame
    /\ scores_dict = AllUnknown
    /\ personality \in RawPersonalities
    /\ result = NoResult
    /\ pc = "normalize"
    /\ AppIdle

NextNormalize == NormalizePersonality

SpecNormalize == InitNormalize /\ [][NextNormalize]_vars

\* calculate_best_fit on a score map and a personality
InitFit ==
    /\ text_list = <<>>
    /\ parsed = <<>>
    /\ marks_df = NoneFrame
    /\ \/ scores_dict \in ScoreMaps /\ personality \in FitPersonalities
       \/ scores_dict = ScenarioScores /\ personality = ScenarioPersonality
    /\ result = NoResult
    /\ pc = "fit"
    /\ AppIdle

NextFit == CalculateBestFit

SpecFit == InitFit /\ [][NextFit]_vars

----------------------------------------------------------------------------
(* streamlit_app.py: one action per interaction.  Every interaction reruns *)
(* the script from the top, so each action is the block of the widget that *)
(* was used followed by the personalized section of the same run.          *)

funVars == <<text_list, parsed, marks_df, scores_dict, personality, result, pc>>

\* the files a user uploads: bytes cv2 cannot decode (a PDF, a truncated
\* image), a blank image, and images of marksheets
UploadFiles ==
    {BadFile, ImageFile(<<>>), ImageFile(<<T_Math, T_50, T_90>>),
     ImageFile(HeaderBuffer)}

\* the slider positions tried
AnswerValues == {SLIDER_DEFAULT, LIKERT_MAX}

\* the uploader is rendered only inside the personalized section of a
\* logged-in user; a widget that is not rendered loses its file
UploaderShown(sess) == sess.want_personal = "Yes" /\ sess.user # "None"

\* the end of a script run: r is the outcome of its personalized section
Shown(r, file, rec, rec_by, rec_from, crashed) ==
    /\ reader' = r.reader
    /\ session' = r.session
    /\ ui' = [uploaded |-> IF UploaderShown(r.session) THEN file ELSE NoFile,
              error    |-> r.error,
              rec      |-> rec,
              rec_by   |-> rec_by,
              rec_from |-> rec_from,
              crashed  |-> crashed]
    /\ UNCHANGED funVars

\* "Submit test answers" (lines 224-236) with the sliders at the positions
\* ra, ta (lines 213, 221): the aggregates are stored and the radio returns
\* the personalization choice
SubmitTests ==
    \E ra \in [DOMAIN RiasecQuestions -> AnswerValues],
       ta \in [DOMAIN TciQuestions -> AnswerValues],
       choice \in {"No", "Yes"} :
        /\ pc = "app"
        /\ \E sess \in {[session EXCEPT
                            !.riasec_answers = ra,
                            !.tci_answers = ta,
                            !.latest_riasec_agg = Stored(aggregate_riasec(ra)),
                            !.latest_tci_agg = Stored(aggregate_tci(ta)),
                            !.want_personal = choice]} :
              \E r \in PersonalSection(reader, sess, ui.uploaded) :
                  Shown(r, ui.uploaded, NoRec, "none", "none", "none")

\* "Get quick recommendation" (lines 245-255)
QuickRecommendation ==
    /\ pc = "app"
    /\ LET riasec_agg == IF session.latest_riasec_agg.set
                         THEN session.latest_riasec_agg.val
                         ELSE [c \in RiasecCategories |-> RZero]
           tci_agg    == IF session.latest_tci_agg.set
                         THEN session.latest_tci_agg.val ELSE <<>>
       IN  \E rec \in recommend_field_for_student(PlaceholderTable,
                          PersonalityRecord(riasec_agg, tci_agg)) :
               \E r \in PersonalSection(reader, session, ui.uploaded) :
                   Shown(r, ui.uploaded, rec, "quick", "placeholder", "none")

\* "Log in" (lines 284-297): on success the user is stored and the script
\* is rerun
LogIn ==
    \E ok \in BOOLEAN :
        /\ pc = "app"
        /\ session.want_personal = "Yes"
        /\ session.user = "None"
        /\ \E sess \in {IF ok THEN [session EXCEPT !.user = "user"] ELSE session} :
              \E r \in PersonalSection(reader, sess, ui.uploaded) :
                  Shown(r, ui.uploaded, NoRec, "none", "none", "none")

\* a file is put into the uploader (lines 321-357)
UploadMarksheet ==
    \E file \in UploadFiles :
        /\ pc = "app"
        /\ UploaderShown(session)
        /\ \E r \in PersonalSection(reader, session, file) :
              Shown(r, file, NoRec, "none", "none", "none")

\* "Generate personalized recommendation" (lines 361-388), after the upload
\* block of the same run
GenerateRecommendation ==
    /\ pc = "app"
    /\ UploaderShown(session)
    /\ \E r \in PersonalSection(reader, session, ui.uploaded) :
          \E t \in {GenerateTable(r.session)} :
              IF t.exc # NoExc
              THEN Shown(r, ui.uploaded, NoRec, "none", "none", t.exc.type)
              ELSE \E rec \in recommend_field_for_student(t.df,
                          PersonalityRecord(RiasecAggOf(r.session), TciAggOf(r.session))) :
                      Shown(r, ui.uploaded, rec, "generate", t.from, "none")

\* get_reader(gpu) called by other code of the process
CallGetReader ==
    \E gpu \in BOOLEAN, init_ok \in BOOLEAN :
        /\ pc = "app"
        /\ reader' = get_reader(reader, gpu, init_ok).reader
        /\ UNCHANGED <<session, ui, funVars>>

Init ==
    /\ text_list = <<>>
    /\ parsed = <<>>
    /\ marks_df = NoneFrame
    /\ scores_dict = AllUnknown
    /\ personality = <<>>
    /\ result = NoResult
    /\ pc = "app"
    /\ AppIdle

Next ==
    \/ SubmitTests
    \/ QuickRecommendation
    \/ LogIn
    \/ UploadMarksheet
    \/ GenerateRecommendation
    \/ CallGetReader

Spec == Init /\ [][Next]_vars

----------------------------------------------------------------------------
(* Properties of extract_subject_scores (SpecExtract)                      *)

CanonicalIds == {"math", "physics", "chemistry", "biology", "computer",
                 "english", "urdu", "islamiat", "pakstudies"}

\* C1: for the table [("MATHEMATICS",100,90),("PHYSICS",100,70),
\* ("ENGLISH",100,95)] extract_subject_scores returns math = 0.9,
\* physics = 0.7, english = 0.95 and None for chemistry, biology, computer,
\* urdu, islamiat and pakstudies.
C1_ScenarioSubjectScores ==
    (pc = "extracted" /\ marks_df = ScenarioTable) =>
        /\ scores_dict["math"] = Num(Rat(9, 10))
        /\ scores_dict["physics"] = Num(Rat(7, 10))
        /\ scores_dict["english"] = Num(Rat(19, 20))
        /\ \A k \in {"chemistry", "biology", "computer", "urdu", "islamiat", "pakstudies"} :
              scores_dict[k] = NoneScore

\* C5: for every table (None, empty, or with records) the returned map has
\* exactly the nine canonical subject ids as its keys, and for a None or
\* empty table every key maps to None.
C5_AllNineKeys ==
    pc = "extracted" =>
        /\ DOMAIN scores_dict = CanonicalIds
        /\ (marks_df.absent \/ marks_df.rows = <<>>) =>
              \A k \in CanonicalIds : scores_dict[k].t = "None"

C5_Witness ==
    /\ pc = "extracted"
    /\ marks_df = Frame(<<>>)
    /\ \A k \in CanonicalIds : scores_dict[k].t = "None"

----------------------------------------------------------------------------
(* Properties of parse_marks_from_ocr_df (SpecPipeline)                    *)

IsNumeric(tok) == extract_number_robust(tok).found

PrimaryRows == {i \in DOMAIN parsed : parsed[i].pass = "primary"}

\* C3: in the primary pass a token containing "MARK" (any case) is never a
\* record's subject; a record is (subject, first number, second number) of
\* the two numeric tokens that follow its subject, the next record's subject
\* lies after the second number; and the buffer ["MARKS OBTAINED",
\* "Chemistry","100","85","Biology","50","40"] yields exactly
\* ("Chemistry",100,85) and ("Biology",50,40), in that order.
C3_PrimaryPassRecords ==
    pc # "parse" =>
        /\ \A i \in PrimaryRows :
              LET r == parsed[i]
              IN  /\ ~Contains(Upper(text_list[r.si]), <<"M","A","R","K">>)
                  /\ r.Subject = Strip(text_list[r.si])
                  /\ r.si < r.mi /\ r.mi < r.oi
                  /\ \A j \in (r.si + 1)..r.oi :
                        IsNumeric(text_list[j]) <=> j \in {r.mi, r.oi}
                  /\ r.Maximum = IntCell(extract_number_robust(text_list[r.mi]).ip)
                  /\ r.Obtained = IntCell(extract_number_robust(text_list[r.oi]).ip)
                  /\ i > 1 => parsed[i - 1].oi < r.si
        /\ (/\ Len(text_list) >= 3
            /\ IsCandidateSubject(Strip(text_list[1]))
            /\ IsNumeric(text_list[2])
            /\ IsNumeric(text_list[3])) =>
              /\ Len(parsed) >= 1
              /\ parsed[1].si = 1 /\ parsed[1].mi = 2 /\ parsed[1].oi = 3
        /\ text_list = HeaderBuffer =>
              marks_df = Frame(<<Row(T_Chemistry, IntCell(100), IntCell(85)),
                                 Row(T_Biology, IntCell(50), IntCell(40))>>)

C3_Witness ==
    /\ pc = "extract"
    /\ text_list = HeaderBuffer
    /\ Len(parsed) = 2
    /\ parsed[1].si = 2 /\ parsed[2].si = 5

\* C6: for every table parse_marks_from_ocr_df builds from a token buffer,
\* every value of the map extract_subject_scores returns is None or a ratio
\* in [0,1].
C6_ScoresInUnitInterval ==
    pc = "extracted" =>
        \A k \in DOMAIN scores_dict :
            \/ scores_dict[k].t = "None"
            \/ /\ scores_dict[k].t = "num"
               /\ RLeq(RZero, scores_dict[k].q)
               /\ RLeq(scores_dict[k].q, ROne)

\* a token the noise filter of the primary pass skips for its length
IsShort(tok) == Len(tok) < MIN_TOKEN_LEN

\* C10: a token of fewer than 2 characters is never a record's
\* subject and never the source of a record's maximum or obtained, also when
\* it lies in the scan window of an earlier candidate subject.
C10_ShortTokenNeverContributes ==
    pc # "parse" =>
        \A i \in DOMAIN parsed :
            /\ ~IsShort(text_list[parsed[i].si])
            /\ ~IsShort(text_list[parsed[i].mi])
            /\ ~IsShort(text_list[parsed[i].oi])

\* C10, with the scan window excepted: a token of fewer than 2 characters is never a record's
\* subject; its number is used as a record's maximum or obtained only by the
\* primary pass, when it lies among the 6 tokens after that record's subject.
C10_ShortTokenOnlyInScanWindow ==
    pc # "parse" =>
        \A i \in DOMAIN parsed :
            /\ ~IsShort(text_list[parsed[i].si])
            /\ \A p \in {parsed[i].mi, parsed[i].oi} :
                  IsShort(text_list[p]) =>
                      /\ parsed[i].pass = "primary"
                      /\ parsed[i].si < p
                      /\ p <= parsed[i].si + SCAN_WINDOW

C10_Witness ==
    /\ pc = "extract"
    /\ \E i \in DOMAIN parsed :
          /\ IsShort(text_list[parsed[i].mi])
          /\ parsed[i].Maximum = IntCell(5)

\* a cell that holds a non-negative integer
IsNonNegInt(cell) == cell.t = "int" /\ cell.v \in Nat

\* C11: the table parse_marks_from_ocr_df returns comes from exactly one
\* heuristic: fallback records are emitted only when the primary pass
\* emitted no record, and every record of the primary pass has both its
\* maximum and its obtained present, as non-negative integers.
C11_OneHeuristicPerTable ==
    pc # "parse" =>
        /\ ~marks_df.absent
        /\ Len(marks_df.rows) = Len(parsed)
        /\ \A i, j \in DOMAIN parsed : parsed[i].pass = parsed[j].pass
        /\ (\E i \in DOMAIN parsed : parsed[i].pass = "fallback") =>
              PrimaryPass(text_list, 1, <<>>) = <<>>
        /\ \A i \in DOMAIN parsed :
              parsed[i].pass = "primary" =>
                  /\ IsNonNegInt(marks_df.rows[i].Maximum)
                  /\ IsNonNegInt(marks_df.rows[i].Obtained)

\* a table of the fallback pass, its obtained missing
C11_Witness ==
    /\ pc = "extract"
    /\ parsed # <<>>
    /\ parsed[1].pass = "fallback"
    /\ PrimaryPass(text_list, 1, <<>>) = <<>>
    /\ marks_df.rows[1].Obtained = NaNCell

----------------------------------------------------------------------------
(* Properties of normalize_personality (SpecNormalize)                     *)

\* C7: normalize_personality returns a mapping with the same keys whose
\* values all lie in [0,1]: a number v <= 5 becomes v/5, a number in
\* (5,100] becomes v/100, a number above 100 becomes 1.0, and None or a
\* non-numeric value becomes 0.0.
C7_NormalizedIntoUnitInterval ==
    pc = "normalized" =>
        /\ DOMAIN result = DOMAIN personality
        /\ \A k \in DOMAIN personality :
              LET v == personality[k]
              IN  /\ RLeq(RZero, result[k]) /\ RLeq(result[k], ROne)
                  /\ v.t \in {"None", "text"} => result[k] = RZero
                  /\ (v.t = "num" /\ v.q.n <= 5 * v.q.d) =>
                        result[k] = Rat(v.q.n, 5 * v.q.d)
                  /\ (v.t = "num" /\ v.q.n > 5 * v.q.d /\ v.q.n <= 100 * v.q.d) =>
                        result[k] = Rat(v.q.n, 100 * v.q.d)
                  /\ (v.t = "num" /\ v.q.n > 100 * v.q.d) => result[k] = ROne

----------------------------------------------------------------------------
(* Properties of calculate_best_fit (SpecFit)                              *)

\* the weighted subject sum of the STEM composite
StemBase(sd) ==
    FAdd(FAdd(Weighted(sd, "math", 35), Weighted(sd, "physics", 25)),
         FAdd(Weighted(sd, "chemistry", 15), Weighted(sd, "computer", 25)))

InUnit(q) == RLeq(RZero, q) /\ RLeq(q, ROne)

\* C2: calculate_best_fit uses an already-normalized personality value as
\* given: the STEM composite is the weighted subject sum times
\* 0.7 + 0.3 * openness for every openness in [0,1]; for math 0.9,
\* physics 0.7, english 0.95 and openness 0.8 it is
\* (0.9*0.35 + 0.7*0.25) * (0.7 + 0.3*0.8).
C2_OpennessUsedAsGiven ==
    (/\ pc = "fitted"
     /\ "openness" \in DOMAIN personality
     /\ personality["openness"].t = "num"
     /\ InUnit(personality["openness"].q)) =>
        /\ RawScores(scores_dict, personality)["STEM"] =
              FMul(StemBase(scores_dict),
                   Num(RAdd(Rat(7, 10), RMul(Rat(3, 10), personality["openness"].q))))
        /\ (scores_dict = ScenarioScores /\ personality = ScenarioPersonality) =>
              RawScores(scores_dict, personality)["STEM"] =
                  Num(RMul(RAdd(RMul(Rat(9, 10), Rat(35, 100)),
                                RMul(Rat(7, 10), Rat(25, 100))),
                           RAdd(Rat(7, 10), RMul(Rat(3, 10), Rat(8, 10)))))

IsPositive(x) == x.t = "num" /\ x.q.n > 0
IsZero(x) == x.t = "num" /\ x.q.n = 0

ScoreSum(rec) == rec.scores["STEM"] + rec.scores["ARTS"] + rec.scores["COMMERCE"]

\* C4: if at least one raw composite is positive the three returned scores
\* (thousandths) sum to 1.0 within 0.001; if all three raw composites are
\* zero, all three returned scores are 0.0.
C4_ScoresSumToOne ==
    pc = "fitted" =>
        LET raw == RawScores(scores_dict, personality)
        IN  /\ (\E f \in Range(Fields) : IsPositive(raw[f])) =>
                  (999 <= ScoreSum(result) /\ ScoreSum(result) <= 1001)
            /\ (\A f \in Range(Fields) : IsZero(raw[f])) =>
                  \A f \in Range(Fields) : result.scores[f] = 0

C4_Witness ==
    /\ pc = "fitted"
    /\ \A f \in Range(Fields) : IsPositive(RawScores(scores_dict, personality)[f])
    /\ ScoreSum(result) = 1001

\* C8: best_field is one of STEM, ARTS, COMMERCE, its score is at least each
\* other score, it is the first such field in the order STEM, ARTS,
\* COMMERCE (STEM when all are zero), and best_subfields is its list of the
\* static table.
C8_BestFieldFirstMax ==
    pc = "fitted" =>
        LET sc == result.scores
            b  == result.best_field
        IN  /\ b \in {"STEM", "ARTS", "COMMERCE"}
            /\ \A f \in {"STEM", "ARTS", "COMMERCE"} : sc[f] <= sc[b]
            /\ b = "ARTS" => sc["STEM"] < sc["ARTS"]
            /\ b = "COMMERCE" => (sc["STEM"] < sc[b] /\ sc["ARTS"] < sc[b])
            /\ (sc["STEM"] = 0 /\ sc["ARTS"] = 0 /\ sc["COMMERCE"] = 0) => b = "STEM"
            /\ b = "STEM" => result.best_subfields =
                  <<"Engineering", "Computer Science", "Pharmacy", "Medicine">>
            /\ b = "ARTS" => result.best_subfields =
                  <<"Design", "Fine Arts", "Journalism", "Languages">>
            /\ b = "COMMERCE" => result.best_subfields =
                  <<"Finance", "Accounting", "Business", "Economics">>

C8_Witness ==
    /\ pc = "fitted"
    /\ result.scores["ARTS"] = result.scores["COMMERCE"]
    /\ result.scores["STEM"] < result.scores["ARTS"]
    /\ result.best_field = "ARTS"

----------------------------------------------------------------------------
(* Properties of the upload block (Spec)                                   *)

\* what the user is shown of a failure: the label and the exception class
Report(e) == <<e.label, e.type>>

\* C9: a failure of run_ocr_on_image on bytes that cannot be decoded reaches
\* the caller as a distinct "image decode failed" condition: no token buffer
\* is returned, and what is reported differs from what is reported for a failure
\* of the recognition engine and for a failure of the parsing that follows.
C9_DecodeFailureDistinct ==
    [][(/\ ui.error.fault = "decode"
        /\ ui'.error.fault \in {"engine", "recognition", "parsing"}) =>
            /\ \A o \in run_ocr_on_image(ui.uploaded, reader) :
                  o.exc.fault = "decode" => o.ocr_df = NoOcr
            /\ Report(ui.error) # Report(ui'.error)]_vars

\* C12: across the calls of get_reader and run_ocr_on_image of one process
\* the recognition engine is constructed at most once, by the first call
\* that finds none; every later call returns that same instance and
\* constructs no other, whatever gpu argument it passes.
C12_ReaderBuiltOnce ==
    [][/\ reader'.built <= 1
       /\ reader'.engine <=> reader'.built = 1
       /\ reader.engine => reader' = reader
       /\ reader' # reader => (~reader.engine /\ reader'.built = reader.built + 1)]_vars

\* the engine was constructed by get_reader(gpu=True), and a later run of
\* run_ocr_on_image, which passes gpu=False, recognized a marksheet with it
C12_Witness ==
    /\ reader.engine
    /\ reader.gpu
    /\ reader.built = 1
    /\ ui.uploaded.present
    /\ ui.error = NoError
    /\ ~session.marks_df.absent

----------------------------------------------------------------------------
(* Properties of the recommendation handlers (Spec)                        *)

\* C13: once a marksheet was uploaded and parsed (the session's marks_df
\* holds the parsed table), pressing "Generate personalized recommendation"
\* computes and shows a recommendation from that table; the placeholder
\* table is used only when the session holds no parsed table.
C13_GenerateUsesParsedTable ==
    [][GenerateRecommendation =>
          IF session'.marks_df.absent
          THEN ui'.rec_by = "generate" /\ ui'.rec_from = "placeholder"
          ELSE /\ ui'.crashed = "none"
               /\ ui'.rec_by = "generate"
               /\ ui'.rec_from = "parsed"
               /\ ui'.rec \in recommend_field_for_student(session'.marks_df,
                       PersonalityRecord(RiasecAggOf(session'), TciAggOf(session')))]_vars

====
